---- MODULE Spec2Model ----
(***************************************************************************)
(* A model of the OpenAI request/response recorder of model-runner         *)
(* (pkg/metrics/openai_recorder.go) and of the normalizing runner map it   *)
(* stores its records in (package runnermap).                              *)
(*                                                                         *)
(* Strings that the code only stores and compares are TLA+ strings.  A     *)
(* response body, which the code searches, splits and parses, is a         *)
(* sequence of tokens: literal pieces of text and JSON texts.  A decoded   *)
(* JSON value carries its dynamic type in the field t, as an interface{}   *)
(* value does in Go.                                                       *)
(***************************************************************************)
EXTENDS Integers, Sequences, FiniteSets, TLC

\* ------------------------------------------------------------------ bounds
\* the longest captured body, in lines, that the stream workload draws
MaxLines == 3
\* the number of calls the clients make in the concurrent workload
MaxCalls == 3
\* the number of RecordRequest calls in the eviction workload
MaxRequests == 12
\* the number of other calls in the eviction workload
MaxOthers == 1
\* the last reading of the nanosecond clock
MaxClock == 1
\* the number of calls in the spelling workload
MaxSpellCalls == 4
\* the number of calls made on a capturing writer
MaxWrites == 4

\* -------------------------------------------------------- program constants
\* the capacity of a key's record history
MaxRecords == 10
StatusOK == 200
StatusBadRequest == 400
StatusNotFound == 404
StatusInternalServerError == 500

\* ------------------------------------------------------------- JSON values
JNull == [t |-> "null"]
JStr(s) == [t |-> "str", s |-> s]
JNum(n) == [t |-> "num", n |-> n]
JArr(a) == [t |-> "arr", a |-> a]
JObj(o) == [t |-> "obj", o |-> o]
\* a nil map[string]interface{}
NilMap == [t |-> "nil"]

IsObj(v) == v.t = "obj"
IsArr(v) == v.t = "arr"
IsStr(v) == v.t = "str"
\* m[key] with the comma-ok form: whether the key is present
HasKey(v, key) == IsObj(v) /\ key \in DOMAIN v.o
\* m[key] of a map, nil (JNull) when the key is missing or the map is nil
Field(v, key) == IF HasKey(v, key) THEN v.o[key] ELSE JNull
\* m[key] = val
WithField(v, key, val) ==
  JObj([k \in DOMAIN v.o \cup {key} |-> IF k = key THEN val ELSE v.o[k]])
\* delete(m, key)
WithoutField(v, key) == JObj([k \in DOMAIN v.o \ {key} |-> v.o[k]])

\* ------------------------------------------------------------- body tokens
Lit(s) == [k |-> "lit", s |-> s]
\* the text json.Marshal writes for v
Json(v) == [k |-> "json", v |-> v]
Marker == Lit("data: ")
NL == Lit("\n")
Done == Lit("[DONE]")
Junk == Lit("x")

\* ------------------------------------------------- strings, as the code uses
\* strings.Contains(body, "data: ")
ContainsMarker(body) == \E i \in 1..Len(body) : body[i] = Marker
\* strings.HasPrefix(line, "data: ")
HasMarkerPrefix(line) == Len(line) > 0 /\ line[1] = Marker
\* strings.TrimPrefix(line, "data: "), of a line that has the prefix
TrimMarkerPrefix(line) == Tail(line)

\* strings.Split(body, "\n"): the pieces between the newlines, empty ones kept
RECURSIVE SplitFrom(_, _, _)
SplitFrom(body, i, cur) ==
  IF i > Len(body) THEN <<cur>>
  ELSE IF body[i] = NL THEN <<cur>> \o SplitFrom(body, i + 1, <<>>)
  ELSE SplitFrom(body, i + 1, Append(cur, body[i]))
SplitLines(body) == SplitFrom(body, 1, <<>>)

\* json.Unmarshal([]byte(data), &chunk) into a nil map[string]interface{}:
\* a JSON object fills the map, the JSON null leaves it nil without an error,
\* and any other text is an error
Unmarshal(data) ==
  IF Len(data) = 1 /\ data[1].k = "json" /\ data[1].v.t \in {"obj", "null"}
  THEN [err |-> FALSE, chunk |-> IF IsObj(data[1].v) THEN data[1].v ELSE NilMap]
  ELSE [err |-> TRUE, chunk |-> NilMap]

\* ------------------------------------------ convertStreamingResponse's steps
\* chunk["choices"].([]interface{}) is a non-empty list whose first element
\* is a map
HasFirstChoice(chunk) ==
  /\ IsArr(Field(chunk, "choices"))
  /\ Len(Field(chunk, "choices").a) > 0
  /\ IsObj(Field(chunk, "choices").a[1])
FirstChoice(chunk) == Field(chunk, "choices").a[1]
\* what one parsed chunk adds to contentBuilder: choices[0].delta.content when
\* every type assertion on the way succeeds
DeltaContent(chunk) ==
  IF /\ HasFirstChoice(chunk)
     /\ IsObj(Field(FirstChoice(chunk), "delta"))
     /\ IsStr(Field(Field(FirstChoice(chunk), "delta"), "content"))
  THEN Field(Field(FirstChoice(chunk), "delta"), "content").s
  ELSE ""

\* the loop over the lines, carrying contentBuilder and lastChunk
RECURSIVE ScanLines(_, _, _)
ScanLines(lines, content, lastChunk) ==
  IF lines = <<>> THEN [content |-> content, lastChunk |-> lastChunk]
  ELSE IF ~HasMarkerPrefix(Head(lines))
    THEN ScanLines(Tail(lines), content, lastChunk)
  ELSE IF TrimMarkerPrefix(Head(lines)) = <<Done>>
    THEN [content |-> content, lastChunk |-> lastChunk]
  ELSE IF Unmarshal(TrimMarkerPrefix(Head(lines))).err
    THEN ScanLines(Tail(lines), content, lastChunk)
  ELSE ScanLines(Tail(lines),
                 content \o DeltaContent(Unmarshal(TrimMarkerPrefix(Head(lines))).chunk),
                 Unmarshal(TrimMarkerPrefix(Head(lines))).chunk)

\* the first choice with its message set, its delta deleted and its
\* finish_reason defaulted
MaterializeChoice(choice, content) ==
  LET withMessage == WithField(choice, "message",
                       JObj([role |-> JStr("assistant"), content |-> JStr(content)]))
      noDelta == WithoutField(withMessage, "delta")
  IN IF HasKey(noDelta, "finish_reason") THEN noDelta
     ELSE WithField(noDelta, "finish_reason", JStr("stop"))

\* finalResponse: the copy of lastChunk after the rewrite of its first choice
\* and of its object field
FinalResponse(lastChunk, content) ==
  LET rewritten ==
        IF HasFirstChoice(lastChunk)
        THEN WithField(lastChunk, "choices",
               JArr([Field(lastChunk, "choices").a EXCEPT
                       ![1] = MaterializeChoice(FirstChoice(lastChunk), content)]))
        ELSE lastChunk
  IN WithField(rewritten, "object", JStr("chat.completion"))

convertStreamingResponseNoPassthrough(streamingBody) ==
  LET scan == ScanLines(SplitLines(streamingBody), "", NilMap)
  IN IF scan.lastChunk = NilMap THEN <<>>
     ELSE <<Json(FinalResponse(scan.lastChunk, scan.content))>>
convertStreamingResponse(streamingBody) ==
  LET scan == ScanLines(SplitLines(streamingBody), "", NilMap)
  IN IF scan.lastChunk = NilMap THEN streamingBody
     ELSE <<Json(FinalResponse(scan.lastChunk, scan.content))>>

\* RecordResponse's choice between reconstruction and the raw body
ResponseText(responseBody) ==
  IF ContainsMarker(responseBody) THEN convertStreamingResponse(responseBody)
  ELSE responseBody

\* ------------------------------------------------------------ the recorder
VARIABLES
  m,             \* runnermap.Map.m of r.records: normalized Key -> ModelData
  initialModel,  \* runnermap.Map.initialModel: normalized Key -> raw model
  heap,          \* the RequestResponsePair objects, by address
  nextAddr,      \* the address the next allocated RequestResponsePair gets
  mu,            \* r.m, the sync.RWMutex: its writer and its readers
  now,           \* the last reading of time.Now().UnixNano()
  pc,            \* each client goroutine's position
  frame,         \* each client goroutine's arguments and locals
  ret,           \* what the last finished call returned or logged
  snap,          \* the *ModelData the last GetModelData call of a client returned
  captured,      \* history: per entry, the addresses appended since it was created
  calls          \* history: the calls made so far, RecordRequest apart

vars == <<m, initialModel, heap, nextAddr, mu, now, pc, frame, ret, snap,
          captured, calls>>

Threads == {"t1", "t2"}
NoThread == "none"

\* llamacpp.Name, and the two operation modes the workloads use
LlamaCpp == "llama.cpp"
BackendModeCompletion == "completion"
BackendModeEmbedding == "embedding"

Key(backend, model, mode) == [Backend |-> backend, Model |-> model, Mode |-> mode]
\* the normalization function the recorder is constructed with: lower-casing
normalizeFn(model) == IF model = "M" THEN "m" ELSE model
\* a normalizeKey that leaves the key as it is
normalizeKeyIdentity(key) == key
normalizeKey(key) == [key EXCEPT !.Model = normalizeFn(key.Model)]
\* the key GetModelData and RemoveModel build from a model name
CompletionKey(model) == Key(LlamaCpp, model, BackendModeCompletion)

\* Map.Get's second result
MapHas(key) == normalizeKey(key) \in DOMAIN m
\* Map.Get's first result, of a key that is present
MapGet(key) == m[normalizeKey(key)]
\* Map.Set's two assignments
MapSetM(key, value) ==
  [k \in DOMAIN m \cup {normalizeKey(key)} |->
     IF k = normalizeKey(key) THEN value ELSE m[k]]
MapSetInitialModel(key) ==
  [k \in DOMAIN initialModel \cup {normalizeKey(key)} |->
     IF k = normalizeKey(key) THEN key.Model ELSE initialModel[k]]
\* a deletion that leaves the value in place
MapDeleteMNever(key) == m
\* Map.Delete's two deletions
MapDeleteM(key) == [k \in DOMAIN m \ {normalizeKey(key)} |-> m[k]]
MapDeleteInitialModel(key) ==
  [k \in DOMAIN initialModel \ {normalizeKey(key)} |-> initialModel[k]]

\* inference.BackendConfiguration{}, and a nil *BackendConfiguration
ZeroConfig == "config-zero"
NilConfig == "config-nil"
\* &ModelData{Records: make([]*RequestResponsePair, 0, 10), Config: BackendConfiguration{}}
NewModelData == [Config |-> ZeroConfig, Records |-> <<>>]
\* a Set that is not guarded by the Get
EnsuredMAlways(runner) == MapSetM(runner, NewModelData)
\* the map after the `if _, ok := r.records.Get(runner); !ok { r.records.Set(...) }`
EnsuredM(runner) == IF MapHas(runner) THEN m ELSE MapSetM(runner, NewModelData)
EnsuredInitialModel(runner) ==
  IF MapHas(runner) THEN initialModel ELSE MapSetInitialModel(runner)
EnsuredCaptured(runner) ==
  IF MapHas(runner) THEN captured
  ELSE [k \in DOMAIN captured \cup {normalizeKey(runner)} |->
          IF k = normalizeKey(runner) THEN <<>> ELSE captured[k]]

\* fmt.Sprintf("%s_%d", runner.Model, time.Now().UnixNano())
RecordID(model, nano) == <<model, nano>>
\* the RequestResponsePair RecordRequest builds: Response "" and StatusCode 0
NewRecord(runner, req, nano) ==
  [ID |-> RecordID(runner.Model, nano), Model |-> runner.Model,
   Method |-> req.Method, URL |-> req.URL, Request |-> req.Body,
   UserAgent |-> req.UserAgent, Timestamp |-> nano,
   Response |-> <<>>, StatusCode |-> 0]

\* the addresses a slice of records, a snapshot or a frame holds
RecordsOf(md) == {md.Records[i] : i \in 1..Len(md.Records)}
FrameAddrs(f) ==
  (IF "records" \in DOMAIN f THEN {f.records[i] : i \in 1..Len(f.records)} ELSE {})
  \cup (IF "appended" \in DOMAIN f THEN {f.appended[i] : i \in 1..Len(f.appended)}
        ELSE {})
  \cup (IF "modelData" \in DOMAIN f /\ f.modelData.found
        THEN RecordsOf(f.modelData) ELSE {})
Reachable(mm, sn, fr) ==
  UNION {RecordsOf(mm[k]) : k \in DOMAIN mm}
  \cup (IF sn.found THEN RecordsOf(sn) ELSE {})
  \cup UNION {FrameAddrs(fr[t]) : t \in Threads}
\* the heap without the records no pointer leads to any more
Collect(h, mm, sn, fr) == [a \in DOMAIN h \cap Reachable(mm, sn, fr) |-> h[a]]

Idle == [op |-> "idle"]
NoRet == [op |-> "none"]
\* a nil *ModelData
NilModelData == [found |-> FALSE]
Unlocked == [writer |-> NoThread, readers |-> {}]

Init ==
  /\ m = <<>>
  /\ initialModel = <<>>
  /\ heap = <<>>
  /\ nextAddr = 1
  /\ mu = Unlocked
  /\ now = 0
  /\ pc = [t \in Threads |-> "idle"]
  /\ frame = [t \in Threads |-> Idle]
  /\ ret = NoRet
  /\ snap = NilModelData
  /\ captured = <<>>
  /\ calls = 0

\* where a goroutine goes on once it has the exclusive lock
LockSuccessor(p) ==
  CASE p = "sc_lock" -> "sc_create"
    [] p = "rr_lock" -> "rr_append"
    [] p = "rp_lock" -> "rp_fill"
    [] p = "rm_lock" -> "rm_delete"
\* an exclusive lock that does not wait for the goroutines holding the lock
LockIgnoringHolders(t) ==
  /\ pc[t] \in {"sc_lock", "rr_lock", "rp_lock", "rm_lock"}
  /\ mu' = [mu EXCEPT !.writer = t]
  /\ pc' = [pc EXCEPT ![t] = LockSuccessor(pc[t])]
  /\ UNCHANGED <<m, initialModel, heap, nextAddr, now, frame, ret, snap,
                 captured, calls>>
\* r.m.Lock(): blocks while anybody holds the lock
Lock(t) ==
  /\ pc[t] \in {"sc_lock", "rr_lock", "rp_lock", "rm_lock"}
  /\ mu = Unlocked
  /\ mu' = [mu EXCEPT !.writer = t]
  /\ pc' = [pc EXCEPT ![t] = LockSuccessor(pc[t])]
  /\ UNCHANGED <<m, initialModel, heap, nextAddr, now, frame, ret, snap,
                 captured, calls>>

\* a shared lock that does not wait for the writer
RLockIgnoringWriter(t) ==
  /\ pc[t] = "gm_rlock"
  /\ mu' = [mu EXCEPT !.readers = @ \cup {t}]
  /\ pc' = [pc EXCEPT ![t] = "gm_copy"]
  /\ UNCHANGED <<m, initialModel, heap, nextAddr, now, frame, ret, snap,
                 captured, calls>>
\* r.m.RLock(): blocks while a writer holds the lock
RLock(t) ==
  /\ pc[t] = "gm_rlock"
  /\ mu.writer = NoThread
  /\ mu' = [mu EXCEPT !.readers = @ \cup {t}]
  /\ pc' = [pc EXCEPT ![t] = "gm_copy"]
  /\ UNCHANGED <<m, initialModel, heap, nextAddr, now, frame, ret, snap,
                 captured, calls>>

\* the deferred r.m.Unlock() and r.m.RUnlock()
Unlock(t) == [mu EXCEPT !.writer = NoThread]
RUnlock(t) == [mu EXCEPT !.readers = @ \ {t}]

\* --------------------------------------------------------- SetConfigForModel
\* config == nil: a warning, and nothing else
SetConfigForModelNil(t, runner) ==
  /\ pc[t] = "idle"
  /\ ret' = [op |-> "SetConfigForModel", log |-> "warn"]
  /\ calls' = calls + 1
  /\ UNCHANGED <<m, initialModel, heap, nextAddr, mu, now, pc, frame, snap,
                 captured>>

SetConfigForModelCall(t, runner, config) ==
  /\ pc[t] = "idle"
  /\ config # NilConfig
  /\ frame' = [frame EXCEPT ![t] =
                 [op |-> "SetConfigForModel", runner |-> runner, config |-> config]]
  /\ pc' = [pc EXCEPT ![t] = "sc_lock"]
  /\ calls' = calls + 1
  /\ UNCHANGED <<m, initialModel, heap, nextAddr, mu, now, ret, snap, captured>>

\* lines 79-84: the entry is created when the key has none
SetConfigForModelCreate(t) ==
  /\ pc[t] = "sc_create"
  /\ m' = EnsuredM(frame[t].runner)
  /\ initialModel' = EnsuredInitialModel(frame[t].runner)
  /\ captured' = EnsuredCaptured(frame[t].runner)
  /\ pc' = [pc EXCEPT ![t] = "sc_assign"]
  /\ UNCHANGED <<heap, nextAddr, mu, now, frame, ret, snap, calls>>

\* lines 86-87: rr.Config = *config, and the deferred Unlock
SetConfigForModelAssign(t) ==
  /\ pc[t] = "sc_assign"
  /\ m' = [m EXCEPT ![normalizeKey(frame[t].runner)].Config = frame[t].config]
  /\ mu' = Unlock(t)
  /\ pc' = [pc EXCEPT ![t] = "idle"]
  /\ frame' = [frame EXCEPT ![t] = Idle]
  /\ ret' = [op |-> "SetConfigForModel", log |-> "none"]
  /\ UNCHANGED <<initialModel, heap, nextAddr, now, snap, captured, calls>>

\* ------------------------------------------------------------- RecordRequest
RecordRequestCall(t, runner, req) ==
  /\ pc[t] = "idle"
  /\ frame' = [frame EXCEPT ![t] =
                 [op |-> "RecordRequest", runner |-> runner, req |-> req]]
  /\ pc' = [pc EXCEPT ![t] = "rr_lock"]
  /\ UNCHANGED <<m, initialModel, heap, nextAddr, mu, now, ret, snap,
                 captured, calls>>

\* append(rr.Records, record)
Appended(records, a) == Append(records, a)

\* lines 94-114: the record is built, the entry created when the key has
\* none, and the slice with the record appended computed
RecordRequestAppend(t, nano) ==
  /\ pc[t] = "rr_append"
  /\ now' = nano
  /\ heap' = [a \in DOMAIN heap \cup {nextAddr} |->
                IF a = nextAddr THEN NewRecord(frame[t].runner, frame[t].req, now')
                ELSE heap[a]]
  /\ nextAddr' = nextAddr + 1
  /\ m' = EnsuredM(frame[t].runner)
  /\ initialModel' = EnsuredInitialModel(frame[t].runner)
  /\ captured' = EnsuredCaptured(frame[t].runner)
  /\ frame' = [frame EXCEPT ![t] =
                 [op |-> "RecordRequest", runner |-> frame[t].runner,
                  recordID |-> RecordID(frame[t].runner.Model, now'),
                  record |-> nextAddr,
                  appended |-> Appended(m'[normalizeKey(frame[t].runner)].Records,
                                        nextAddr)]]
  /\ pc' = [pc EXCEPT ![t] = "rr_store"]
  /\ UNCHANGED <<mu, ret, snap, calls>>

\* line 114: the assignment rr.Records = ...
RecordRequestStore(t) ==
  /\ pc[t] = "rr_store"
  /\ m' = [m EXCEPT ![normalizeKey(frame[t].runner)].Records = frame[t].appended]
  /\ captured' = [captured EXCEPT
                    ![normalizeKey(frame[t].runner)] = Append(@, frame[t].record)]
  /\ frame' = [frame EXCEPT ![t] =
                 [op |-> "RecordRequest", runner |-> frame[t].runner,
                  recordID |-> frame[t].recordID]]
  /\ pc' = [pc EXCEPT ![t] = "rr_evict"]
  /\ UNCHANGED <<initialModel, heap, nextAddr, mu, now, ret, snap, calls>>

\* the eviction with the newest record dropped instead of the oldest
EvictedNewest(records) ==
  IF Len(records) > MaxRecords THEN SubSeq(records, 1, Len(records) - 1) ELSE records
\* lines 116-118: if len(rr.Records) > 10 { rr.Records = rr.Records[1:] }
Evicted(records) == IF Len(records) > MaxRecords THEN Tail(records) ELSE records

\* lines 116-120: the eviction, the return of the id and the deferred Unlock
RecordRequestEvict(t) ==
  /\ pc[t] = "rr_evict"
  /\ m' = [m EXCEPT ![normalizeKey(frame[t].runner)].Records = Evicted(@)]
  /\ mu' = Unlock(t)
  /\ pc' = [pc EXCEPT ![t] = "idle"]
  /\ frame' = [frame EXCEPT ![t] = Idle]
  /\ ret' = [op |-> "RecordRequest", id |-> frame[t].recordID]
  /\ heap' = Collect(heap, m', snap, frame')
  /\ UNCHANGED <<initialModel, nextAddr, now, snap, captured, calls>>

\* ------------------------------------------------------------ RecordResponse
\* a RecordResponse that takes the lock before it computes the response text
RecordResponseCallLockFirst(t, id, runner, rw) ==
  /\ pc[t] = "idle"
  /\ mu = Unlocked
  /\ mu' = [mu EXCEPT !.writer = t]
  /\ frame' = [frame EXCEPT ![t] =
                 [op |-> "RecordResponse", id |-> id, runner |-> runner,
                  responseBody |-> rw.body, statusCode |-> rw.statusCode]]
  /\ pc' = [pc EXCEPT ![t] = "rp_parse"]
  /\ calls' = calls + 1
  /\ UNCHANGED <<m, initialModel, heap, nextAddr, now, ret, snap, captured>>
\* lines 133-136: the writer's buffer and status are read
RecordResponseCall(t, id, runner, rw) ==
  /\ pc[t] = "idle"
  /\ frame' = [frame EXCEPT ![t] =
                 [op |-> "RecordResponse", id |-> id, runner |-> runner,
                  responseBody |-> rw.body, statusCode |-> rw.statusCode]]
  /\ pc' = [pc EXCEPT ![t] = "rp_parse"]
  /\ calls' = calls + 1
  /\ UNCHANGED <<m, initialModel, heap, nextAddr, mu, now, ret, snap, captured>>

\* lines 138-143: the response text is computed
RecordResponseParse(t) ==
  /\ pc[t] = "rp_parse"
  /\ frame' = [frame EXCEPT ![t] =
                 [op |-> "RecordResponse", id |-> frame[t].id,
                  runner |-> frame[t].runner,
                  responseBody |-> frame[t].responseBody,
                  statusCode |-> frame[t].statusCode,
                  response |-> ResponseText(frame[t].responseBody)]]
  /\ pc' = [pc EXCEPT ![t] = "rp_lock"]
  /\ UNCHANGED <<m, initialModel, heap, nextAddr, mu, now, ret, snap,
                 captured, calls>>

\* a comparison that every record passes
MatchesAny(records, id) == 1..Len(records)
\* the positions of the records the loop of line 149 would stop at
Matches(records, id) == {i \in 1..Len(records) : heap[records[i]].ID = id}
\* the last of them
LastMatch(records, id) ==
  CHOOSE i \in Matches(records, id) : \A j \in Matches(records, id) : i >= j
\* the first of them
FirstMatch(records, id) ==
  CHOOSE i \in Matches(records, id) : \A j \in Matches(records, id) : i <= j
\* a fill that sets the response text and leaves the status code alone
FilledResponseOnly(record, response, statusCode) ==
  [record EXCEPT !.Response = response]
\* lines 151-152: the two assignments to the matching record
Filled(record, response, statusCode) ==
  [record EXCEPT !.Response = response, !.StatusCode = statusCode]

\* a scan that is left holding the last record when none matches
ScanOrLast(records, id) ==
  IF Matches(records, id) = {} THEN Len(records) ELSE FirstMatch(records, id)
\* lines 149-155: the position the loop returns at, 0 when it runs to its end
Scan(records, id) ==
  IF Matches(records, id) = {} THEN 0 ELSE FirstMatch(records, id)

\* lines 148-159: the scan of the key's records, and the deferred Unlock
RecordResponseFill(t) ==
  /\ pc[t] = "rp_fill"
  /\ LET i == IF MapHas(frame[t].runner)
              THEN Scan(MapGet(frame[t].runner).Records, frame[t].id) ELSE 0
     IN IF i > 0
        THEN /\ heap' = [heap EXCEPT ![MapGet(frame[t].runner).Records[i]] =
                           Filled(@, frame[t].response, frame[t].statusCode)]
             /\ ret' = [op |-> "RecordResponse", id |-> frame[t].id, log |-> "none"]
        ELSE /\ heap' = heap
             /\ ret' = [op |-> "RecordResponse", id |-> frame[t].id, log |-> "error"]
  /\ mu' = Unlock(t)
  /\ pc' = [pc EXCEPT ![t] = "idle"]
  /\ frame' = [frame EXCEPT ![t] = Idle]
  /\ UNCHANGED <<m, initialModel, nextAddr, now, snap, captured, calls>>

\* -------------------------------------------------------------- GetModelData
GetModelDataCall(t, model) ==
  /\ pc[t] = "idle"
  /\ frame' = [frame EXCEPT ![t] =
                 [op |-> "GetModelData", model |-> model, caller |-> "client"]]
  /\ pc' = [pc EXCEPT ![t] = "gm_rlock"]
  /\ calls' = calls + 1
  /\ UNCHANGED <<m, initialModel, heap, nextAddr, mu, now, ret, snap, captured>>

\* records := make([]*RequestResponsePair, len(modelData.Records));
\* copy(records, modelData.Records): the pointers are copied, not the records
CopiedRecords(records) == [i \in 1..Len(records) |-> records[i]]

\* GetModelData's return: to the client, which keeps the result, or to the
\* handler, which goes on with it
Returned(t, result) ==
  IF frame[t].caller = "client"
  THEN /\ snap' = result
       /\ ret' = [op |-> "GetModelData", found |-> result.found]
       /\ frame' = [frame EXCEPT ![t] = Idle]
       /\ pc' = [pc EXCEPT ![t] = "idle"]
  ELSE /\ snap' = snap
       /\ ret' = ret
       /\ frame' = [frame EXCEPT ![t] =
                      [op |-> "GetRecordsByModelHandler", model |-> frame[t].model,
                       modelData |-> result]]
       /\ pc' = [pc EXCEPT ![t] = "h_respond"]

\* lines 262-264: the lookup and the copy of the slice
GetModelDataCopy(t) ==
  /\ pc[t] = "gm_copy"
  /\ MapHas(CompletionKey(frame[t].model))
  /\ frame' = [frame EXCEPT ![t] =
                 [op |-> "GetModelData", model |-> frame[t].model,
                  caller |-> frame[t].caller,
                  records |-> CopiedRecords(MapGet(CompletionKey(frame[t].model)).Records)]]
  /\ pc' = [pc EXCEPT ![t] = "gm_build"]
  /\ UNCHANGED <<m, initialModel, heap, nextAddr, mu, now, ret, snap,
                 captured, calls>>

\* line 268: return nil, and the deferred RUnlock
GetModelDataMissing(t) ==
  /\ pc[t] = "gm_copy"
  /\ ~MapHas(CompletionKey(frame[t].model))
  /\ mu' = RUnlock(t)
  /\ Returned(t, NilModelData)
  /\ heap' = Collect(heap, m, snap', frame')
  /\ UNCHANGED <<m, initialModel, nextAddr, now, captured, calls>>

\* line 265: &ModelData{Config: modelData.Config, Records: records}, and the
\* deferred RUnlock
GetModelDataBuild(t) ==
  /\ pc[t] = "gm_build"
  /\ mu' = RUnlock(t)
  /\ Returned(t, [found |-> TRUE,
                  Config |-> MapGet(CompletionKey(frame[t].model)).Config,
                  Records |-> frame[t].records])
  /\ heap' = Collect(heap, m, snap', frame')
  /\ UNCHANGED <<m, initialModel, nextAddr, now, captured, calls>>

\* --------------------------------------------------------------- RemoveModel
RemoveModelCall(t, model) ==
  /\ pc[t] = "idle"
  /\ frame' = [frame EXCEPT ![t] = [op |-> "RemoveModel", model |-> model]]
  /\ pc' = [pc EXCEPT ![t] = "rm_lock"]
  /\ calls' = calls + 1
  /\ UNCHANGED <<m, initialModel, heap, nextAddr, mu, now, ret, snap, captured>>

\* lines 275-281: the entry is deleted when there is one, and the deferred Unlock
RemoveModelDelete(t) ==
  /\ pc[t] = "rm_delete"
  /\ IF MapHas(CompletionKey(frame[t].model))
     THEN /\ m' = MapDeleteM(CompletionKey(frame[t].model))
          /\ initialModel' = MapDeleteInitialModel(CompletionKey(frame[t].model))
          /\ captured' = [k \in DOMAIN m' |-> captured[k]]
          /\ ret' = [op |-> "RemoveModel", log |-> "info"]
     ELSE /\ UNCHANGED <<m, initialModel, captured>>
          /\ ret' = [op |-> "RemoveModel", log |-> "warn"]
  /\ mu' = Unlock(t)
  /\ pc' = [pc EXCEPT ![t] = "idle"]
  /\ frame' = [frame EXCEPT ![t] = Idle]
  /\ heap' = Collect(heap, m', snap, frame')
  /\ UNCHANGED <<nextAddr, now, snap, calls>>

\* -------------------------------------------------- GetRecordsByModelHandler
\* lines 233-234: no model parameter
HandlerBadRequest(t) ==
  /\ pc[t] = "idle"
  /\ ret' = [op |-> "GetRecordsByModelHandler", code |-> StatusBadRequest]
  /\ calls' = calls + 1
  /\ UNCHANGED <<m, initialModel, heap, nextAddr, mu, now, pc, frame, snap,
                 captured>>

\* line 237: modelData := r.GetModelData(model)
HandlerCall(t, model) ==
  /\ pc[t] = "idle"
  /\ model # ""
  /\ frame' = [frame EXCEPT ![t] =
                 [op |-> "GetModelData", model |-> model, caller |-> "handler"]]
  /\ pc' = [pc EXCEPT ![t] = "gm_rlock"]
  /\ calls' = calls + 1
  /\ UNCHANGED <<m, initialModel, heap, nextAddr, mu, now, ret, snap, captured>>

\* an encoder that counts the records the entry holds as it writes
EncodedBodyLiveCount(model, modelData) ==
  [model |-> model,
   records |-> [i \in 1..Len(modelData.Records) |-> heap[modelData.Records[i]]],
   count |-> IF MapHas(CompletionKey(model))
             THEN Len(MapGet(CompletionKey(model)).Records) ELSE 0,
   config |-> modelData.Config]
\* lines 244-249: the body the encoder writes, the records read through their
\* pointers as it goes
EncodedBody(model, modelData) ==
  [model |-> model,
   records |-> [i \in 1..Len(modelData.Records) |-> heap[modelData.Records[i]]],
   count |-> Len(modelData.Records),
   config |-> modelData.Config]

\* lines 238-242: no entry for the model
HandlerNotFound(t) ==
  /\ pc[t] = "h_respond"
  /\ ~frame[t].modelData.found
  /\ ret' = [op |-> "GetRecordsByModelHandler", code |-> StatusNotFound]
  /\ pc' = [pc EXCEPT ![t] = "idle"]
  /\ frame' = [frame EXCEPT ![t] = Idle]
  /\ UNCHANGED <<m, initialModel, heap, nextAddr, mu, now, snap, captured, calls>>

\* lines 244-249: the body is encoded, the status left at net/http's 200
\* (the values encoded are strings, numbers and a time, so Encode can fail
\* only in w.Write, after the 200 status is committed: the branch of lines
\* 250-252 gives no other answer)
HandlerEncode(t) ==
  /\ pc[t] = "h_respond"
  /\ frame[t].modelData.found
  /\ ret' = [op |-> "GetRecordsByModelHandler", code |-> StatusOK,
                body |-> EncodedBody(frame[t].model, frame[t].modelData)]
  /\ pc' = [pc EXCEPT ![t] = "idle"]
  /\ frame' = [frame EXCEPT ![t] = Idle]
  /\ heap' = Collect(heap, m, snap, frame')
  /\ UNCHANGED <<m, initialModel, nextAddr, mu, now, snap, captured, calls>>

\* ------------------------------------------ a client that writes to its copy
Tampered == <<Lit("tampered")>>
TamperedConfig == "config-tampered"

\* the client reorders or drops elements of the slice it was given
MutateSnapshotRecords(t) ==
  /\ pc[t] = "idle"
  /\ snap.found
  /\ snap.Records # <<>>
  /\ \E records \in {Tail(snap.Records),
                     [i \in 1..Len(snap.Records) |->
                        snap.Records[Len(snap.Records) + 1 - i]]} :
       snap' = [snap EXCEPT !.Records = records]
  /\ heap' = Collect(heap, m, snap', frame)
  /\ calls' = calls + 1
  /\ UNCHANGED <<m, initialModel, nextAddr, mu, now, pc, frame, ret, captured>>

\* the client assigns to a field of a record it was given a pointer to
MutateSnapshotRecord(t, i) ==
  /\ pc[t] = "idle"
  /\ snap.found
  /\ i \in 1..Len(snap.Records)
  /\ heap' = [heap EXCEPT ![snap.Records[i]].Response = Tampered]
  /\ calls' = calls + 1
  /\ UNCHANGED <<m, initialModel, nextAddr, mu, now, pc, frame, ret, snap,
                 captured>>

\* the client assigns to the Config of the ModelData it was given
MutateSnapshotConfig(t) ==
  /\ pc[t] = "idle"
  /\ snap.found
  /\ snap' = [snap EXCEPT !.Config = TamperedConfig]
  /\ calls' = calls + 1
  /\ UNCHANGED <<m, initialModel, heap, nextAddr, mu, now, pc, frame, ret,
                 captured>>

\* ------------------------------------------------------------ the workloads
\* the key all the records of the eviction and stream workloads go to
HotKey == Key(LlamaCpp, "m", BackendModeCompletion)
\* what the clients of the concurrent workload pass
Models == {"m"}
RawKeys == {HotKey, Key(LlamaCpp, "m", BackendModeEmbedding)}
Configs == {"config-a"}
Requests == {[Method |-> "POST", URL |-> "/v1/chat/completions", Body |-> "q",
              UserAgent |-> "curl"]}
\* the ids a client can pass: built from a model name and a past reading
Ids == {RecordID(model, nano) : model \in Models, nano \in 0..now}

\* a streamed chunk carrying one fragment of content
ContentChunk(fragment) ==
  JObj([id |-> JStr("cmpl-1"), object |-> JStr("chat.completion.chunk"),
        choices |-> JArr(<<JObj([index |-> JNum(0),
                                 delta |-> JObj([content |-> JStr(fragment)])])>>)])
DataLine(data) == <<Marker>> \o data
\* the lines joined by "\n"
RECURSIVE JoinLines(_)
JoinLines(lines) ==
  IF lines = <<>> THEN <<>>
  ELSE IF Len(lines) = 1 THEN lines[1]
  ELSE lines[1] \o <<NL>> \o JoinLines(Tail(lines))

\* the writers the workloads hand to RecordResponse: a plain body of a failed
\* call, and a stream
PlainWriter == [body |-> <<Junk>>, statusCode |-> StatusInternalServerError]
StreamWriter ==
  [body |-> JoinLines(<<DataLine(<<Json(ContentChunk("Hello"))>>), <<>>,
                        DataLine(<<Done>>)>>), statusCode |-> StatusOK]
Writers == {PlainWriter, StreamWriter}

\* the steps a goroutine takes inside a call, RecordRequest's append apart
Step(t) ==
  \/ Lock(t)
  \/ RLock(t)
  \/ SetConfigForModelCreate(t)
  \/ SetConfigForModelAssign(t)
  \/ RecordRequestStore(t)
  \/ RecordRequestEvict(t)
  \/ RecordResponseParse(t)
  \/ RecordResponseFill(t)
  \/ GetModelDataCopy(t)
  \/ GetModelDataMissing(t)
  \/ GetModelDataBuild(t)
  \/ RemoveModelDelete(t)
  \/ HandlerNotFound(t)
  \/ HandlerEncode(t)

\* the goroutines are interchangeable: of the idle ones the first takes the
\* next call
LessThread(t, u) == (t = "t1" /\ u = "t2")
NextIdle(t) == pc[t] = "idle" /\ \A u \in Threads : LessThread(u, t) => pc[u] # "idle"

\* the calls other than RecordRequest, on the given keys and models
OtherCall(t, keys, models, ids, writers) ==
  \/ \E runner \in keys : SetConfigForModelNil(t, runner)
  \/ \E runner \in keys, config \in Configs : SetConfigForModelCall(t, runner, config)
  \/ \E id \in ids, runner \in keys, rw \in writers :
       RecordResponseCall(t, id, runner, rw)
  \/ \E model \in models : GetModelDataCall(t, model)
  \/ \E model \in models : RemoveModelCall(t, model)
  \/ HandlerBadRequest(t)
  \/ \E model \in models : HandlerCall(t, model)

\* what a client does with the *ModelData it was given
ClientWrite(t) ==
  \/ MutateSnapshotRecords(t)
  \/ \E i \in 1..MaxRecords : MutateSnapshotRecord(t, i)
  \/ MutateSnapshotConfig(t)

\* the concurrent workload: two clients, at most MaxCalls calls of any kind on
\* any key, and a clock that may stand still between two readings
Budget == calls + nextAddr - 1 < MaxCalls
Next ==
  \/ \E t \in Threads : Step(t)
  \/ \E t \in Threads, nano \in {now, now + 1} \cap 0..MaxClock :
       RecordRequestAppend(t, nano)
  \/ \E t \in Threads, runner \in RawKeys, req \in Requests :
       Budget /\ NextIdle(t) /\ RecordRequestCall(t, runner, req)
  \/ \E t \in Threads :
       Budget /\ NextIdle(t) /\ OtherCall(t, RawKeys, Models, Ids, Writers)
  \/ \E t \in Threads : Budget /\ NextIdle(t) /\ ClientWrite(t)

Spec == Init /\ [][Next]_vars

\* the eviction workload: two clients, at most MaxRequests RecordRequest calls,
\* all on one key and each at its own nanosecond, and at most MaxOthers other
\* calls, which pass the oldest or the newest id issued
RequestBudget == nextAddr - 1 < MaxRequests
OtherBudget == calls < MaxOthers
FifoIds == {RecordID("m", 1), RecordID("m", now)}
NextFifo ==
  \/ \E t \in Threads : Step(t)
  \/ \E t \in Threads : RecordRequestAppend(t, now + 1)
  \/ \E t \in Threads, req \in Requests :
       RequestBudget /\ NextIdle(t) /\ RecordRequestCall(t, HotKey, req)
  \/ \E t \in Threads :
       OtherBudget /\ NextIdle(t) /\ OtherCall(t, {HotKey}, Models, FifoIds, {PlainWriter})

SpecFifo == Init /\ [][NextFifo]_vars

\* the stream workload: one client records one request and, when that has
\* returned, passes RecordResponse any captured body of at most MaxLines lines
\* chunks as a backend streams them: the second fragment with a null finish
\* reason, the last chunk of the choice with its own finish reason and no
\* content, the usage chunk with no choices, and an error object
WorldChunk ==
  JObj([id |-> JStr("cmpl-1"), object |-> JStr("chat.completion.chunk"),
        choices |-> JArr(<<JObj([index |-> JNum(0),
                                 delta |-> JObj([content |-> JStr(" world")]),
                                 finish_reason |-> JNull])>>)])
LengthChunk ==
  JObj([id |-> JStr("cmpl-1"), object |-> JStr("chat.completion.chunk"),
        choices |-> JArr(<<JObj([index |-> JNum(0), delta |-> JObj(<<>>),
                                 finish_reason |-> JStr("length")])>>)])
UsageChunk ==
  JObj([id |-> JStr("cmpl-1"), object |-> JStr("chat.completion.chunk"),
        choices |-> JArr(<<>>), usage |-> JObj([total_tokens |-> JNum(7)])])
ErrorChunk == JObj([error |-> JObj([message |-> JStr("overloaded")])])
NullContentChunk ==
  JObj([id |-> JStr("cmpl-1"), object |-> JStr("chat.completion.chunk"),
        choices |-> JArr(<<JObj([index |-> JNum(0),
                                 delta |-> JObj([role |-> JStr("assistant"),
                                                 content |-> JNull])])>>)])
StreamLines ==
  {DataLine(<<Json(v)>>) :
     v \in {ContentChunk("Hello"), WorldChunk, LengthChunk, UsageChunk, ErrorChunk,
            NullContentChunk, JNull, JNum(1)}}
  \cup {<<>>, <<Junk>>, DataLine(<<Done>>), DataLine(<<Junk>>),
        <<Junk, Marker, Json(ContentChunk("Hello"))>>}
RECURSIVE LinesUpTo(_)
LinesUpTo(n) ==
  IF n = 0 THEN {<<>>}
  ELSE LinesUpTo(n - 1)
       \cup {Append(lines, line) : lines \in LinesUpTo(n - 1), line \in StreamLines}
StreamWriters ==
  {[body |-> JoinLines(lines), statusCode |-> code] :
     lines \in LinesUpTo(MaxLines), code \in {StatusOK, StatusInternalServerError}}

NextStream ==
  \/ Lock("t1")
  \/ RecordRequestAppend("t1", now + 1)
  \/ RecordRequestStore("t1")
  \/ RecordRequestEvict("t1")
  \/ RecordResponseParse("t1")
  \/ RecordResponseFill("t1")
  \/ \E req \in Requests : m = <<>> /\ RecordRequestCall("t1", HotKey, req)
  \/ /\ ret.op = "RecordRequest"
     /\ pc["t1"] = "idle"
     /\ \E id \in Ids, rw \in StreamWriters : RecordResponseCall("t1", id, HotKey, rw)

SpecStream == Init /\ [][NextStream]_vars

\* the spelling workload: one client makes at most MaxSpellCalls calls, one
\* after the other, spelling the model name in upper or in lower case, on the
\* completion and the embedding key
SpelledModels == {"m", "M"}
SpelledKeys ==
  {Key(LlamaCpp, model, BackendModeCompletion) : model \in SpelledModels}
  \cup {Key(LlamaCpp, "m", BackendModeEmbedding)}
SpelledIds == {RecordID(model, nano) : model \in SpelledModels, nano \in 1..now}
SpellBudget == calls + nextAddr - 1 < MaxSpellCalls
NextSpelling ==
  \/ Step("t1")
  \/ RecordRequestAppend("t1", now + 1)
  \/ \E runner \in SpelledKeys, req \in Requests :
       SpellBudget /\ RecordRequestCall("t1", runner, req)
  \/ SpellBudget /\ OtherCall("t1", SpelledKeys, SpelledModels, SpelledIds, {PlainWriter})

SpecSpelling == Init /\ [][NextSpelling]_vars

\* ----------------------------------------------------------- responseRecorder
\* The goroutine that serves a request holds the writer in its frame: the
\* buffer, the tracked status, what the underlying http.ResponseWriter has
\* received, and, as history, the calls made on the writer so far.

\* whether the underlying writer is an http.Flusher is the caller's choice
NewResponseRecorder(t, flusher) ==
  /\ pc[t] = "idle"
  /\ frame' = [frame EXCEPT ![t] =
                 [op |-> "responseRecorder", body |-> <<>>, statusCode |-> StatusOK,
                  flusher |-> flusher, sink |-> <<>>, history |-> <<>>]]
  /\ pc' = [pc EXCEPT ![t] = "writing"]
  /\ UNCHANGED <<m, initialModel, heap, nextAddr, mu, now, ret, snap,
                 captured, calls>>

\* a buffer that holds the bytes of the last write only
BufferedLast(body, b) == b
\* rr.body.Write(b)
Buffered(body, b) == body \o b

\* Write: the bytes are appended to the buffer and passed to the underlying
\* writer
Write(t, b) ==
  /\ pc[t] = "writing"
  /\ frame' = [frame EXCEPT
                 ![t].body = Buffered(@, b),
                 ![t].sink = Append(@, [call |-> "Write", b |-> b]),
                 ![t].history = Append(@, [call |-> "Write", b |-> b])]
  /\ UNCHANGED <<m, initialModel, heap, nextAddr, mu, now, pc, ret, snap,
                 captured, calls>>

\* WriteHeader: the status is tracked and passed to the underlying writer
WriteHeader(t, statusCode) ==
  /\ pc[t] = "writing"
  /\ frame' = [frame EXCEPT
                 ![t].statusCode = statusCode,
                 ![t].sink = Append(@, [call |-> "WriteHeader", code |-> statusCode]),
                 ![t].history = Append(@, [call |-> "WriteHeader", code |-> statusCode])]
  /\ UNCHANGED <<m, initialModel, heap, nextAddr, mu, now, pc, ret, snap,
                 captured, calls>>

\* Flush: passed to the underlying writer when that is an http.Flusher
Flush(t) ==
  /\ pc[t] = "writing"
  /\ frame' = [frame EXCEPT
                 ![t].sink = IF frame[t].flusher
                             THEN Append(@, [call |-> "Flush"]) ELSE @,
                 ![t].history = Append(@, [call |-> "Flush"])]
  /\ UNCHANGED <<m, initialModel, heap, nextAddr, mu, now, pc, ret, snap,
                 captured, calls>>

\* the writer workload: a backend makes at most MaxWrites calls on a
\* capturing writer, writing pieces of a streamed body and setting statuses
WrittenPieces == {<<Junk>>, <<Marker, Done, NL>>}
WrittenCodes == {StatusOK, StatusNotFound, StatusInternalServerError}
WriteBudget == pc["t1"] = "writing" /\ Len(frame["t1"].history) < MaxWrites
NextWriter ==
  \/ \E flusher \in BOOLEAN : NewResponseRecorder("t1", flusher)
  \/ \E b \in WrittenPieces : WriteBudget /\ Write("t1", b)
  \/ \E statusCode \in WrittenCodes : WriteBudget /\ WriteHeader("t1", statusCode)
  \/ WriteBudget /\ Flush("t1")

SpecWriter == Init /\ [][NextWriter]_vars

\* ================================================================ the claims
\* the last ten of the records captured for an entry, in capture order
LastTenCaptured(k) ==
  SubSeq(captured[k],
         IF Len(captured[k]) > 10 THEN Len(captured[k]) - 9 ELSE 1,
         Len(captured[k]))
\* whether a RecordRequest on entry k is between its append and its return
Appending(k) ==
  \E t \in Threads : pc[t] \in {"rr_store", "rr_evict"} /\ normalizeKey(frame[t].runner) = k

\* C1: after the Nth RecordRequest on a key the key holds the last min(N, 10)
\* records captured for it, in capture order, so that once N > 10 the oldest
\* stored record is the (N-9)th captured.
C1_FifoEviction ==
  \A k \in DOMAIN m : ~Appending(k) => m[k].Records = LastTenCaptured(k)
\* a key that has taken more than ten requests, the last of them returned
C1_Witness ==
  /\ \A t \in Threads : pc[t] = "idle"
  /\ \E k \in DOMAIN m : Len(captured[k]) > 10 /\ m[k].Records[1] = Len(captured[k]) - 9

\* C2: whenever nobody holds the exclusive lock every key has at most 10
\* records, and no GetModelData returns more than 10, to a client or to the
\* handler.
C2_BoundedOutsideLock ==
  /\ mu.writer = NoThread => \A k \in DOMAIN m : Len(m[k].Records) <= 10
  /\ snap.found => Len(snap.Records) <= 10
  /\ \A t \in Threads :
       /\ "records" \in DOMAIN frame[t] => Len(frame[t].records) <= 10
       /\ ("modelData" \in DOMAIN frame[t] /\ frame[t].modelData.found)
            => Len(frame[t].modelData.Records) <= 10
  /\ (ret.op = "GetRecordsByModelHandler" /\ ret.code = StatusOK) => ret.body.count <= 10
\* a client holds ten records of a key that has taken more than ten requests,
\* and nobody holds the lock
C2_Witness ==
  /\ mu = Unlocked
  /\ snap.found
  /\ Len(snap.Records) = 10
  /\ \E k \in DOMAIN m : Len(captured[k]) > 10 /\ Len(m[k].Records) = 10

\* whether the RecordResponse of goroutine t finds no record to fill: its key
\* has no entry, or none of the entry's records has its id
Unmatched(t) ==
  \/ normalizeKey(frame[t].runner) \notin DOMAIN m
  \/ \A i \in 1..Len(m[normalizeKey(frame[t].runner)].Records) :
       heap[m[normalizeKey(frame[t].runner)].Records[i]].ID # frame[t].id

\* C3: a RecordResponse whose key is unknown or whose id is that of no record
\* stored under its key returns and leaves every record and every config of
\* every key as it was.
C3_UnmatchedResponseDropped ==
  [][\A t \in Threads :
       (RecordResponseFill(t) /\ Unmatched(t))
         => /\ m' = m
            /\ heap' = heap
            /\ initialModel' = initialModel
            /\ pc'[t] = "idle"
            /\ ret'.op = "RecordResponse"]_vars
\* the response to the first request of a key arrived after ten newer requests
\* had evicted it, and was dropped
C3_Witness ==
  /\ ret.op = "RecordResponse"
  /\ ret.log = "error"
  /\ \E k \in DOMAIN m :
       /\ Len(captured[k]) > 10
       /\ Len(m[k].Records) = 10
       /\ ret.id = RecordID(k.Model, captured[k][1])

\* what GetModelData(model) returns when called now, its records read through
\* their pointers
QueryValue(model) ==
  IF MapHas(CompletionKey(model))
  THEN [found |-> TRUE,
        Config |-> MapGet(CompletionKey(model)).Config,
        Records |-> [i \in 1..Len(MapGet(CompletionKey(model)).Records) |->
                       heap[MapGet(CompletionKey(model)).Records[i]]]]
  ELSE [found |-> FALSE]

\* C4: whatever a client writes to the copy GetModelData gave it (to the
\* slice, to a record of it, to the config), a later GetModelData for any
\* model returns what it would have returned before.
C4_QueryIndependentOfCopy ==
  [][\A t \in Threads :
       ClientWrite(t) => \A model \in Models : QueryValue(model)' = QueryValue(model)]_vars

\* C5: RecordRequest calls that run concurrently, on distinct keys or on one,
\* leave the store that running them one after the other leaves: whenever
\* nobody holds the exclusive lock every entry holds, once each and in the
\* order of their appends, the records captured for it and not yet evicted,
\* every stored record is a complete record of a request to its own key, no
\* record is stored twice, and the two maps of the runner map agree.
C5_SerialOutcome ==
  mu.writer = NoThread =>
    /\ DOMAIN initialModel = DOMAIN m
    /\ \A k \in DOMAIN m :
         /\ Len(m[k].Records) = IF Len(captured[k]) > 10 THEN 10 ELSE Len(captured[k])
         /\ \A i \in 1..Len(m[k].Records) :
              /\ m[k].Records[i] \in DOMAIN heap
              /\ m[k].Records[i] = captured[k][Len(captured[k]) - Len(m[k].Records) + i]
              /\ normalizeFn(heap[m[k].Records[i]].Model) = k.Model
              /\ heap[m[k].Records[i]].ID[1] = heap[m[k].Records[i]].Model
              /\ heap[m[k].Records[i]].Request = "q"
    /\ \A k1 \in DOMAIN m, k2 \in DOMAIN m :
         \A i \in 1..Len(m[k1].Records), j \in 1..Len(m[k2].Records) :
           (k1 # k2 \/ i # j) => m[k1].Records[i] # m[k2].Records[j]
\* two RecordRequest calls on distinct keys have run at once, the second
\* waiting for the lock while the first appended, and both records are stored,
\* each under its own key
C5_Witness ==
  /\ mu = Unlocked
  /\ \A t \in Threads : pc[t] = "idle"
  /\ \E k1 \in DOMAIN m, k2 \in DOMAIN m :
       /\ k1 # k2
       /\ m[k1].Records = <<1>>
       /\ m[k2].Records = <<2>>
       /\ calls = 0

\* the records of the call's key that carry the call's id
MatchingRecords(t) ==
  {a \in DOMAIN heap :
     /\ MapHas(frame[t].runner)
     /\ \E i \in 1..Len(MapGet(frame[t].runner).Records) :
          MapGet(frame[t].runner).Records[i] = a
     /\ heap[a].ID = frame[t].id}

\* C6: when the captured body does not contain "data: " and the id matches a
\* stored record, RecordResponse sets a matching record's response text to
\* the raw captured body and its status code to the writer's status.
C6_RawBodyStored ==
  [][\A t \in Threads :
       (/\ RecordResponseFill(t)
        /\ MatchingRecords(t) # {}
        /\ ~ContainsMarker(frame[t].responseBody))
       => \E a \in MatchingRecords(t) :
            /\ heap'[a].Response = frame[t].responseBody
            /\ heap'[a].StatusCode = frame[t].statusCode]_vars
\* a two-line body without the marker, written with status 500, has been
\* stored as it was captured
C6_Witness ==
  /\ ret.op = "RecordResponse"
  /\ ret.log = "none"
  /\ \E a \in DOMAIN heap :
       /\ heap[a].ID = ret.id
       /\ heap[a].Response = <<Junk, NL, Junk>>
       /\ heap[a].StatusCode = StatusInternalServerError

\* what follows "data: " on the data lines before the first terminator line
RECURSIVE PayloadsBeforeDone(_)
PayloadsBeforeDone(lines) ==
  IF lines = <<>> THEN <<>>
  ELSE IF ~HasMarkerPrefix(Head(lines)) THEN PayloadsBeforeDone(Tail(lines))
  ELSE IF TrimMarkerPrefix(Head(lines)) = <<Done>> THEN <<>>
  ELSE <<TrimMarkerPrefix(Head(lines))>> \o PayloadsBeforeDone(Tail(lines))
\* a payload that is the text of one JSON object
IsChunkText(data) == Len(data) = 1 /\ data[1].k = "json" /\ IsObj(data[1].v)
\* the chunks of a body: its payloads that are JSON objects, in arrival order
ParsedChunks(body) == SelectSeq(PayloadsBeforeDone(SplitLines(body)), IsChunkText)
\* the first-choice delta content fragments of the chunks, concatenated
RECURSIVE Concatenated(_)
Concatenated(chunks) ==
  IF chunks = <<>> THEN ""
  ELSE DeltaContent(Head(chunks)[1].v) \o Concatenated(Tail(chunks))
\* v is chunk with its first choice given the message of text content, its
\* delta removed, and the object field "chat.completion"
Reconstructed(v, chunk, content) ==
  /\ IsObj(v)
  /\ DOMAIN v.o = DOMAIN chunk.o \cup {"object", "choices"}
  /\ \A key \in DOMAIN v.o \ {"object", "choices"} : v.o[key] = chunk.o[key]
  /\ Field(v, "object") = JStr("chat.completion")
  /\ HasFirstChoice(v)
  /\ Field(FirstChoice(v), "message") =
       JObj([role |-> JStr("assistant"), content |-> JStr(content)])
  /\ ~HasKey(FirstChoice(v), "delta")

\* C7: whenever at least one data line before the terminator parses as a
\* chunk, the response text RecordResponse computes is the last such chunk
\* with object "chat.completion" and a first choice that has no delta and the
\* message {role: "assistant", content: C}, C being the concatenation in
\* arrival order of the chunks' first-choice delta content fragments.
C7_StreamReconstructed ==
  \A t \in Threads :
    ("response" \in DOMAIN frame[t] /\ ParsedChunks(frame[t].responseBody) # <<>>)
    => LET chunks == ParsedChunks(frame[t].responseBody)
       IN /\ Len(frame[t].response) = 1
          /\ frame[t].response[1].k = "json"
          /\ Reconstructed(frame[t].response[1].v, chunks[Len(chunks)][1].v,
                           Concatenated(chunks))

\* C8: when the captured body contains "data: " and no data line before the
\* terminator parses as a chunk (every chunk malformed, the terminator first,
\* or the marker only inside a line), a RecordResponse whose id matches stores
\* the original body unchanged and returns without an error.
C8_FailOpenPassthrough ==
  [][\A t \in Threads :
       (/\ RecordResponseFill(t)
        /\ MatchingRecords(t) # {}
        /\ ContainsMarker(frame[t].responseBody)
        /\ ParsedChunks(frame[t].responseBody) = <<>>)
       => /\ \E a \in MatchingRecords(t) : heap'[a].Response = frame[t].responseBody
          /\ ret'.op = "RecordResponse"
          /\ ret'.log = "none"
          /\ pc'[t] = "idle"]_vars
\* a body of a malformed chunk, the terminator and a chunk after it has been
\* stored as it was captured
C8_Witness ==
  /\ ret.op = "RecordResponse"
  /\ ret.log = "none"
  /\ \E a \in DOMAIN heap :
       /\ heap[a].ID = ret.id
       /\ heap[a].Response =
            JoinLines(<<DataLine(<<Junk>>), DataLine(<<Done>>),
                        DataLine(<<Json(ContentChunk("Hello"))>>)>>)

\* the step leaves the entries, and the records they hold, as they were
StoreUnchanged ==
  /\ m' = m
  /\ initialModel' = initialModel
  /\ \A k \in DOMAIN m : \A i \in 1..Len(m[k].Records) :
       /\ m[k].Records[i] \in DOMAIN heap'
       /\ heap'[m[k].Records[i]] = heap[m[k].Records[i]]
\* goroutine t is inside a request to the query endpoint
InHandler(t) ==
  \/ pc[t] \in {"gm_rlock", "gm_copy", "gm_build"} /\ frame[t].caller = "handler"
  \/ pc[t] = "h_respond"

C10_SetConfig ==
  [][/\ (\E t \in Threads, runner \in RawKeys : SetConfigForModelNil(t, runner))
          => (StoreUnchanged /\ heap' = heap /\ ret'.log = "warn")
     /\ \A t \in Threads :
          LET k == normalizeKey(frame[t].runner) IN
          /\ (pc[t] \in {"sc_create", "sc_assign"} /\ pc'[t] = pc[t])
               => (m' = m /\ initialModel' = initialModel)
          /\ (pc[t] = "sc_create" /\ pc'[t] # pc[t]) =>
               /\ DOMAIN m' = DOMAIN m \cup {k}
               /\ \A j \in DOMAIN m : m'[j] = m[j]
               /\ k \notin DOMAIN m => m'[k].Records = <<>>
               /\ heap' = heap
          /\ (pc[t] = "sc_assign" /\ pc'[t] # pc[t]) =>
               /\ DOMAIN m' = DOMAIN m
               /\ m'[k].Config = frame[t].config
               /\ m'[k].Records = m[k].Records
               /\ \A j \in DOMAIN m \ {k} : m'[j] = m[j]
               /\ initialModel' = initialModel
               /\ heap' = heap]_vars
\* a key that had a record has been given a config, and has kept the record
C10_Witness ==
  /\ ret.op = "SetConfigForModel"
  /\ ret.log = "none"
  /\ \E k \in DOMAIN m : m[k].Config = "config-a" /\ Len(m[k].Records) = 1

\* the last chunk of a body that has one
LastParsedChunk(body) == ParsedChunks(body)[Len(ParsedChunks(body))][1].v
\* goroutine t has computed a reconstructed object with a first choice from a
\* body whose last chunk has a first choice
ReconstructedChoice(t) ==
  /\ "response" \in DOMAIN frame[t]
  /\ ParsedChunks(frame[t].responseBody) # <<>>
  /\ HasFirstChoice(LastParsedChunk(frame[t].responseBody))
  /\ Len(frame[t].response) = 1
  /\ frame[t].response[1].k = "json"
  /\ HasFirstChoice(frame[t].response[1].v)

\* C11: in a reconstructed response the first choice's finish reason is
\* "stop" when the first choice of the last parsed chunk carries no finish
\* reason (none, or null), and is that chunk's own finish reason otherwise.
C11_FinishReason ==
  \A t \in Threads :
    ReconstructedChoice(t) =>
      Field(FirstChoice(frame[t].response[1].v), "finish_reason") =
        IF Field(FirstChoice(LastParsedChunk(frame[t].responseBody)),
                 "finish_reason") = JNull
        THEN JStr("stop")
        ELSE Field(FirstChoice(LastParsedChunk(frame[t].responseBody)),
                   "finish_reason")

\* record a of entry k is still stored under k after the step, as it was
KeptUnchanged(k, a) ==
  /\ a \in DOMAIN heap'
  /\ heap'[a] = heap[a]
  /\ k \in DOMAIN m'
  /\ \E j \in 1..Len(m'[k].Records) : m'[k].Records[j] = a

\* C12: RecordRequest creates its record with an empty response text and no
\* status; a stored record with these empty fields is kept stored and
\* unchanged by every step, except the fill of a RecordResponse with its id
\* and key, its eviction as the oldest of more than ten by a RecordRequest to
\* its key, and the removal of its key.
C12_UnansweredRecordKept ==
  [][/\ \A a \in DOMAIN heap' \ DOMAIN heap :
          heap'[a].Response = <<>> /\ heap'[a].StatusCode = 0
     /\ \A k \in DOMAIN m : \A i \in 1..Len(m[k].Records) :
          (heap[m[k].Records[i]].Response = <<>> /\ heap[m[k].Records[i]].StatusCode = 0)
          => \/ KeptUnchanged(k, m[k].Records[i])
             \/ \E t \in Threads :
                  /\ pc[t] = "rp_fill" /\ pc'[t] = "idle"
                  /\ normalizeKey(frame[t].runner) = k
                  /\ frame[t].id = heap[m[k].Records[i]].ID
             \/ \E t \in Threads :
                  /\ pc[t] = "rr_evict" /\ pc'[t] = "idle"
                  /\ normalizeKey(frame[t].runner) = k
                  /\ Len(m[k].Records) > 10 /\ i = 1
             \/ \E t \in Threads :
                  /\ pc[t] = "rm_delete" /\ pc'[t] = "idle"
                  /\ normalizeKey(CompletionKey(frame[t].model)) = k]_vars
\* after evictions, a RecordResponse has filled the newest record of a key and
\* the older records of the key are stored with their empty fields
C12_Witness ==
  /\ ret.op = "RecordResponse"
  /\ ret.log = "none"
  /\ \E k \in DOMAIN m :
       /\ Len(captured[k]) > 10
       /\ Len(m[k].Records) = 10
       /\ heap[m[k].Records[10]].Response # <<>>
       /\ \A i \in 1..9 : /\ heap[m[k].Records[i]].Response = <<>>
                          /\ heap[m[k].Records[i]].StatusCode = 0

\* C13: what GetModelData returns, to a client or to the handler, is the
\* config and the record sequence that the key's entry holds together at the
\* instant of the return, whatever SetConfigForModel, RecordRequest,
\* RecordResponse and RemoveModel calls are interleaved with it; and between
\* its copy of the records and its return the entry does not change.
C13_AtomicSnapshot ==
  [][\A t \in Threads :
       /\ (pc[t] = "gm_build" /\ pc'[t] = pc[t]) => m' = m
       /\ (pc[t] = "gm_build" /\ pc'[t] # pc[t]) =>
            LET result == IF frame[t].caller = "client"
                          THEN snap' ELSE frame'[t].modelData
            IN /\ result.found
               /\ MapHas(CompletionKey(frame[t].model))
               /\ result.Config = MapGet(CompletionKey(frame[t].model)).Config
               /\ result.Records = MapGet(CompletionKey(frame[t].model)).Records]_vars
\* a client has been returned the config and the one record of an entry while
\* a RecordRequest of the other goroutine waited for the lock
C13_Witness ==
  /\ ret.op = "GetModelData"
  /\ snap.found
  /\ snap.Config = "config-a"
  /\ snap.Records = <<1>>
  /\ \E t \in Threads : pc[t] = "rr_lock"

\* C14: a RecordResponse call that is computing its response text holds the
\* lock in neither form, and one that holds the lock has its response text
\* already computed, so that the calls of the other goroutines go on while a
\* reconstruction is in progress.
C14_ParseOutsideLock ==
  \A t \in Threads :
    /\ pc[t] = "rp_parse" =>
         /\ mu.writer # t
         /\ t \notin mu.readers
         /\ "response" \notin DOMAIN frame[t]
    /\ (frame[t].op = "RecordResponse" /\ mu.writer = t) =>
         /\ pc[t] = "rp_fill"
         /\ "response" \in DOMAIN frame[t]
\* while one goroutine is about to reconstruct a streamed body, the other has
\* taken the lock and stored a record
C14_Witness ==
  /\ pc["t1"] = "rp_parse"
  /\ ContainsMarker(frame["t1"].responseBody)
  /\ pc["t2"] = "rr_evict"
  /\ mu.writer = "t2"
  /\ MapHas(frame["t2"].runner)
  /\ MapGet(frame["t2"].runner).Records # <<>>

\* C15: an entry appears only in the step of a SetConfigForModel with a
\* config, or of a RecordRequest, that finds its key without one, and after
\* that step the key has an entry; an entry disappears only in the step of a
\* RemoveModel that addresses its key, and after that step the key has none;
\* RecordResponse and the queries create and delete nothing.
C15_EntryLifecycle ==
  [][/\ DOMAIN initialModel' = DOMAIN m'
     /\ \A k \in DOMAIN m' \ DOMAIN m :
          \E t \in Threads :
            /\ pc[t] \in {"sc_create", "rr_append"} /\ pc'[t] # pc[t]
            /\ normalizeKey(frame[t].runner) = k
     /\ \A k \in DOMAIN m \ DOMAIN m' :
          \E t \in Threads :
            /\ pc[t] = "rm_delete" /\ pc'[t] # pc[t]
            /\ normalizeKey(CompletionKey(frame[t].model)) = k
     /\ \A t \in Threads :
          /\ (pc[t] \in {"sc_create", "rr_append"} /\ pc'[t] # pc[t])
               => normalizeKey(frame[t].runner) \in DOMAIN m'
          /\ (pc[t] = "rm_delete" /\ pc'[t] # pc[t])
               => normalizeKey(CompletionKey(frame[t].model)) \notin DOMAIN m'
          /\ (frame[t].op \in {"RecordResponse", "GetModelData",
                               "GetRecordsByModelHandler"} /\ pc'[t] # pc[t])
               => DOMAIN m' = DOMAIN m]_vars
\* the entry of a key that had a record was removed, and the key has been
\* given an entry again by a SetConfigForModel
C15_Witness ==
  /\ \A t \in Threads : pc[t] = "idle"
  /\ ret.op = "SetConfigForModel"
  /\ ret.log = "none"
  /\ nextAddr = 2
  /\ DOMAIN m = {HotKey}
  /\ m[HotKey] = [Config |-> "config-a", Records |-> <<>>]

\* two keys of one backend and mode whose model names normalize to one value
SameEntry(k1, k2) ==
  /\ k1.Backend = k2.Backend
  /\ k1.Mode = k2.Mode
  /\ normalizeFn(k1.Model) = normalizeFn(k2.Model)
\* the records stored in the entries that key addresses, under any spelling,
\* that carry the id
StoredFor(key, id) ==
  {a \in DOMAIN heap :
     /\ heap[a].ID = id
     /\ \E j \in DOMAIN m :
          /\ SameEntry(j, key)
          /\ \E i \in 1..Len(m[j].Records) : m[j].Records[i] = a}

\* C16: keys of one backend and mode whose model names normalize to the same
\* value address one entry.  There is never more than one entry for them, and
\* it remembers a spelling of theirs; a RecordRequest under one spelling
\* appends to the entry created under another and touches no entry of a key
\* that differs after normalization; a RecordResponse finds, under any
\* spelling, the record with its id and fills it, and finds no record stored
\* for a key that differs after normalization; GetModelData finds the entry
\* and RemoveModel removes it under any spelling.
C16_SpellingsShareEntry ==
  [][/\ \A j1 \in DOMAIN m', j2 \in DOMAIN m' : SameEntry(j1, j2) => j1 = j2
     /\ \A j \in DOMAIN m' :
          j \in DOMAIN initialModel' /\ normalizeFn(initialModel'[j]) = j.Model
     /\ \A t \in Threads :
          /\ (pc[t] = "rr_store" /\ pc'[t] # pc[t]) =>
               /\ DOMAIN m' = DOMAIN m
               /\ \A j \in DOMAIN m :
                    IF SameEntry(j, frame[t].runner)
                    THEN m'[j].Records = Append(m[j].Records, frame[t].record)
                    ELSE m'[j] = m[j]
          /\ (pc[t] = "rp_fill" /\ pc'[t] # pc[t]) =>
               IF StoredFor(frame[t].runner, frame[t].id) # {}
               THEN /\ ret'.log = "none"
                    /\ \E a \in StoredFor(frame[t].runner, frame[t].id) :
                         heap'[a].Response = frame[t].response
                    /\ \A a \in DOMAIN heap \ StoredFor(frame[t].runner, frame[t].id) :
                         heap'[a] = heap[a]
               ELSE ret'.log = "error" /\ heap' = heap
          /\ (pc[t] = "gm_copy" /\ pc'[t] # pc[t]) =>
               (pc'[t] = "gm_build" <=>
                  \E j \in DOMAIN m : SameEntry(j, CompletionKey(frame[t].model)))
          /\ (pc[t] = "rm_delete" /\ pc'[t] # pc[t]) =>
               /\ \A j \in DOMAIN m' : ~SameEntry(j, CompletionKey(frame[t].model))
               /\ \A j \in DOMAIN m :
                    ~SameEntry(j, CompletionKey(frame[t].model))
                    => (j \in DOMAIN m' /\ m'[j] = m[j])]_vars
\* the entry created under the spelling "m" holds a record of a request made
\* under the spelling "M", and a RecordResponse has filled that record
C16_Witness ==
  /\ ret.op = "RecordResponse"
  /\ ret.log = "none"
  /\ \E j \in DOMAIN m :
       /\ initialModel[j] = "m"
       /\ \E i \in 1..Len(m[j].Records) :
            /\ heap[m[j].Records[i]].Model = "M"
            /\ heap[m[j].Records[i]].ID = ret.id
            /\ heap[m[j].Records[i]].Response # <<>>

\* C17: a record that a RecordResponse has filled keeps its response text and
\* its status code through the fill of every later RecordResponse call.
C17_ResponseWrittenOnce ==
  [][\A t \in Threads :
       (pc[t] = "rp_fill" /\ pc'[t] # pc[t]) =>
         \A a \in DOMAIN heap :
           heap[a].StatusCode # 0 =>
             /\ a \in DOMAIN heap'
             /\ heap'[a].Response = heap[a].Response
             /\ heap'[a].StatusCode = heap[a].StatusCode]_vars

\* the bytes of the body writes among the calls, concatenated in order
RECURSIVE BytesWritten(_)
BytesWritten(history) ==
  IF history = <<>> THEN <<>>
  ELSE IF Head(history).call = "Write"
    THEN Head(history).b \o BytesWritten(Tail(history))
  ELSE BytesWritten(Tail(history))
\* the code of the last status-set call among the calls, 200 when there is none
RECURSIVE LastStatus(_)
LastStatus(history) ==
  IF history = <<>> THEN StatusOK
  ELSE IF history[Len(history)].call = "WriteHeader"
    THEN history[Len(history)].code
  ELSE LastStatus(SubSeq(history, 1, Len(history) - 1))
IsWriteOrStatus(c) == c.call \in {"Write", "WriteHeader"}

\* C18: after any calls of Write and WriteHeader on a capturing writer, the
\* underlying writer has received every one of them in the same order, the
\* buffer is the concatenation in order of the bytes written, and the tracked
\* status is the code of the last WriteHeader, or 200 when there was none.
C18_CapturingWriter ==
  \A t \in Threads :
    pc[t] = "writing" =>
      /\ SelectSeq(frame[t].sink, IsWriteOrStatus)
           = SelectSeq(frame[t].history, IsWriteOrStatus)
      /\ frame[t].flusher => frame[t].sink = frame[t].history
      /\ frame[t].body = BytesWritten(frame[t].history)
      /\ frame[t].statusCode = LastStatus(frame[t].history)
\* a backend has set the status twice and written two pieces, a flush between
C18_Witness ==
  /\ pc["t1"] = "writing"
  /\ frame["t1"].history =
       <<[call |-> "WriteHeader", code |-> StatusNotFound],
         [call |-> "Write", b |-> <<Junk>>],
         [call |-> "WriteHeader", code |-> StatusInternalServerError],
         [call |-> "Write", b |-> <<Marker, Done, NL>>]>>
  /\ frame["t1"].body = <<Junk, Marker, Done, NL>>
  /\ frame["t1"].statusCode = StatusInternalServerError

\* the records the step changes
ChangedRecords == {a \in DOMAIN heap : a \notin DOMAIN heap' \/ heap'[a] # heap[a]}

\* C19: the fill of a RecordResponse changes at most one record, the first in
\* its key's sequence whose id is the call's, also when later records of the
\* sequence carry the same id, and of that record only the response text and
\* the status code, which become the call's; it changes no entry's config or
\* sequence, and no record of another key.
C19_FillsFirstMatchOnly ==
  [][\A t \in Threads :
       (pc[t] = "rp_fill" /\ pc'[t] # pc[t]) =>
         LET k == normalizeKey(frame[t].runner) IN
         /\ m' = m
         /\ initialModel' = initialModel
         /\ Cardinality(ChangedRecords) <= 1
         /\ \A a \in ChangedRecords :
              /\ k \in DOMAIN m
              /\ \E i \in 1..Len(m[k].Records) :
                   /\ m[k].Records[i] = a
                   /\ heap[a].ID = frame[t].id
                   /\ \A j \in 1..(i - 1) : heap[m[k].Records[j]].ID # frame[t].id
              /\ a \in DOMAIN heap'
              /\ heap'[a] = [heap[a] EXCEPT !.Response = frame[t].response,
                                            !.StatusCode = frame[t].statusCode]
         /\ (k \in DOMAIN m /\ \E i \in 1..Len(m[k].Records) :
                                 heap[m[k].Records[i]].ID = frame[t].id)
            => \E i \in 1..Len(m[k].Records) :
                 /\ heap[m[k].Records[i]].ID = frame[t].id
                 /\ \A j \in 1..(i - 1) : heap[m[k].Records[j]].ID # frame[t].id
                 /\ heap'[m[k].Records[i]].Response = frame[t].response
                 /\ heap'[m[k].Records[i]].StatusCode = frame[t].statusCode]_vars
\* of two records of one entry that carry the same id, a RecordResponse has
\* filled the older and left the newer
C19_Witness ==
  /\ ret.op = "RecordResponse"
  /\ ret.log = "none"
  /\ \E k \in DOMAIN m :
       /\ Len(m[k].Records) = 2
       /\ heap[m[k].Records[1]].ID = ret.id
       /\ heap[m[k].Records[2]].ID = ret.id
       /\ heap[m[k].Records[1]].StatusCode # 0
       /\ heap[m[k].Records[2]].StatusCode = 0
       /\ heap[m[k].Records[2]].Response = <<>>

\* what a reader of the *ModelData last returned to a client reads through it
SnapshotValue ==
  [Config |-> snap.Config,
   Records |-> [i \in 1..Len(snap.Records) |-> heap[snap.Records[i]]]]
\* goroutine t takes a step of a call that writes under the exclusive lock
WriterStep(t) ==
  /\ pc[t] \in {"sc_create", "sc_assign", "rr_append", "rr_store", "rr_evict",
                "rp_fill", "rm_delete"}
  /\ pc'[t] # pc[t]

\* C20: once GetModelData has returned a snapshot to a client, no step of a
\* SetConfigForModel, RecordRequest, RecordResponse or RemoveModel call changes
\* a value read through it: its config, its record sequence, or a field of
\* one of its records.
C20_SnapshotStable ==
  [][(snap.found /\ \E t \in Threads : WriterStep(t))
       => (snap'.found /\ SnapshotValue' = SnapshotValue)]_vars

====
